---------------------------- MODULE Spec2Model ----------------------------
(***************************************************************************)
(* A model of the ai-resume-analyser repository:                           *)
(*   - app/lib/storage.ts    lazy storage initialisation, uploadFile,      *)
(*                           readFile, deleteFile, copyFile and moveFile   *)
(*                           against a bucket                              *)
(*   - the PDF converter     convertPdfToImage / attemptPdfConversion and  *)
(*                           the loader loadPdfJs                          *)
(*   - the OAuth callback    the request handler and its helper calls      *)
(*   - app/routes/resume.tsx the resume view's effects and loadResume      *)
(*   - scripts/seed-data.mjs and scripts/run-migrations.mjs against a      *)
(*     relational database with the schema of migrations/*.sql             *)
(* Every remote call (bucket, database, PDF library, timer) is a           *)
(* nondeterministic choice over the outcomes the call can have.            *)
(***************************************************************************)
EXTENDS Integers, Sequences, FiniteSets, TLC

VARIABLES
    \* ---- app/lib/storage.ts, module state and the bucket behind it
    env,                  \* process.env as read at module load
    storage,              \* storage !== null
    bucket,               \* bucket !== null
    initializationError,  \* [set, message]
    files,                \* the paths that exist in the bucket
    \* ---- one call of uploadFile / readFile / convertPdfToImage in progress
    op,                   \* "none" | "upload" | "read" | "convert"
    arg,                  \* the call's arguments
    maxRetries,
    attempt,
    pc,                   \* "idle" | "loop" | "backoff" | "done"
    lastError,            \* [set, message]
    log,                  \* the remote calls and timers of this call, in order
    result,               \* how the call ended
    \* ---- the last call of deleteFile
    del,
    \* ---- app/routes/resume.tsx: the Resume component
    isLoading,            \* useApiStore().isLoading
    isAuthenticated,      \* useApiStore().auth.isAuthenticated
    id,                   \* useParams().id, "" when absent
    mounted,
    navigated,            \* the targets navigate() was called with, in order
    resumeUrl, imageUrl, feedback,   \* useState values: set or not
    load,                 \* the invocation of loadResume: its position and locals
    \* ---- the database of migrations/000_initial_schema.sql
    users, resumes, sessions, kv_store,   \* the rows of each table
    serial,               \* the next value of each table's id sequence
    random,               \* how many random UUIDs have been drawn
    \* ---- scripts/seed-data.mjs
    seed,                 \* the run of seedData in progress: position and locals
    seedRuns,             \* the runs started
    summaries,            \* the row counts each completed run printed
    \* ---- scripts/run-migrations.mjs and the schema it migrates
    variant,              \* the form of the two migration files that are not at hand
    schema,               \* the tables, columns and indexes of the database
    mig,                  \* the run of runMigrations in progress
    migLog,               \* the queries and reports of that run, in order
    migRuns,              \* the runs started
    faults,               \* the queries that failed for a reason of the connection
    \* ---- the OAuth callback handler: one request at a time
    req,                  \* req.method and req.query
    res,                  \* what the handler did to the response
    handler,              \* the handler's position, locals and helper calls
    \* ---- the PDF converter's loader: module state and its callers
    window,               \* typeof window !== "undefined"
    pdfjsLib,             \* pdfjsLib !== null
    loadPromise,          \* 0 for null, else the number of the promise it holds
    promises,             \* the imports started and the promises made of them
    callers               \* the callers of loadPdfJs and what each awaits

storageVars == <<env, storage, bucket, initializationError, files, op, arg,
                 maxRetries, attempt, pc, lastError, log, result, del>>

resumeVars == <<isLoading, isAuthenticated, id, mounted, navigated,
                resumeUrl, imageUrl, feedback, load>>

dbVars == <<users, resumes, sessions, kv_store, serial, random,
            seed, seedRuns, summaries>>

migVars == <<variant, schema, mig, migLog, migRuns, faults>>

oauthVars == <<req, res, handler>>

pdfVars == <<window, pdfjsLib, loadPromise, promises, callers>>

vars == <<storageVars, resumeVars, dbVars, migVars, oauthVars, pdfVars>>

-----------------------------------------------------------------------------
(* Bounds of the model *)

MaxRetriesBound == 3

Paths == {"users/u1/a.pdf", "public/b.pdf"}

-----------------------------------------------------------------------------
(* Error messages are sequences of text fragments; String.includes is a    *)
(* search for a fragment.                                                  *)

Includes(msg, frag) == \E i \in 1..Len(msg) : msg[i] = frag

NoError == [set |-> FALSE, message |-> <<>>]
Err(msg) == [set |-> TRUE, message |-> msg]

\* Messages a failing bucket call can carry.
StorageErrors == { <<"ECONNRESET">>, <<"socket hang up">>, <<"Bucket ", "not found">> }

\* One remote call or timer: ev is the call, k the attempt it belongs to, ok
\* whether it returned (FALSE: it threw or yielded an error result), val the
\* boolean it returned (file.exists), msg the error message, ms a timer's delay.
Event(ev, k, ok, val, msg, ms) ==
    [ev |-> ev, k |-> k, ok |-> ok, val |-> val, msg |-> msg, ms |-> ms]

Call(ev, k) == Event(ev, k, TRUE, TRUE, <<>>, 0)
Failed(ev, k, msg) == Event(ev, k, FALSE, FALSE, msg, 0)
Delay(k, ms) == Event("delay", k, TRUE, TRUE, <<>>, ms)

NoResult == [kind |-> "none", message |-> <<>>]
Resolved == [kind |-> "resolved", message |-> <<>>]
Rejected(msg) == [kind |-> "rejected", message |-> msg]
ErrorResult(msg) == [kind |-> "errorResult", message |-> msg]

-----------------------------------------------------------------------------
(* storage.ts: initialisation *)

InitState == [storage |-> storage, bucket |-> bucket,
              initializationError |-> initializationError]

\* What new Storage(...) can do: return the client, or throw.
Constructor == {"ok", "throws"}

initializeStorageClearsError(st, ctor) ==
    IF st.storage THEN st
    ELSE IF env.credentials = "badjson"
         THEN [st EXCEPT !.initializationError =
                             Err(<<"Unexpected token in JSON">>)]
         ELSE IF ctor = "throws"
         THEN [st EXCEPT !.initializationError =
                             Err(<<"Could not load the default credentials">>)]
         ELSE [st EXCEPT !.storage = TRUE,
                         !.bucket = env.bucketName,
                         !.initializationError = NoError]

\* if (storage) return; try { JSON.parse / new Storage / storage.bucket }
\* catch (error) { initializationError = error }
initializeStorage(st, ctor) ==
    IF st.storage THEN st
    ELSE IF env.credentials = "badjson"
         THEN [st EXCEPT !.initializationError =
                             Err(<<"Unexpected token in JSON">>)]
         ELSE IF ctor = "throws"
         THEN [st EXCEPT !.initializationError =
                             Err(<<"Could not load the default credentials">>)]
         ELSE [st EXCEPT !.storage = TRUE,
                         !.bucket = env.bucketName]

\* if (!storage) initializeStorage(); if (initializationError) throw it
ensureInitialized(st, ctor) ==
    LET s1 == IF ~st.storage THEN initializeStorage(st, ctor) ELSE st
    IN  [st |-> s1, throws |-> s1.initializationError.set]

SetInitState(s) ==
    /\ storage' = s.storage
    /\ bucket' = s.bucket
    /\ initializationError' = s.initializationError

BucketMissing == <<"GCS bucket not initialized">>

-----------------------------------------------------------------------------
(* storage.ts: uploadFile *)

Idle == pc \in {"idle", "done"}

UploadLoopCondOffByOne(a, n) == a < n

UploadLoopCond(a, n) == a <= n

UploadDelayAlways(a, n) == a <= n

UploadShouldDelay(a, n) == a < n

UploadBackoffMs(a) == 500 * 2^(a - 1)

UploadCatchKeepsFirst(prev, e) == IF prev.set THEN prev ELSE e

\* catch (error) { lastError = error instanceof Error ? error : new Error(String(error))
UploadCatch(prev, e) == e

UploadFinalError(n, last) ==
    <<"Failed to upload file after ", ToString(n), " attempts: ">>
        \o (IF last.set THEN last.message ELSE <<"undefined">>)

NoDelete == [called |-> FALSE, path |-> "", initialised |-> FALSE,
             existed |-> FALSE, log |-> <<>>, result |-> NoResult]

StartCall(name, a, n) ==
    /\ op' = name
    /\ arg' = a
    /\ maxRetries' = n
    /\ attempt' = 1
    /\ lastError' = NoError
    /\ log' = <<>>
    /\ del' = NoDelete

\* The call ends before its loop: an exception of the checks before it.
EndEarly(msg) ==
    /\ pc' = "done"
    /\ result' = Rejected(msg)

CallUploadFile ==
    /\ Idle
    /\ \E fileEmpty \in BOOLEAN, hasName \in BOOLEAN,
          n \in 0..MaxRetriesBound, path \in Paths \ files, ctor \in Constructor :
          LET e == ensureInitialized(InitState, ctor) IN
          /\ SetInitState(e.st)
          /\ StartCall("upload", [path |-> path], n)
          /\ IF e.throws THEN EndEarly(e.st.initializationError.message)
             ELSE IF ~e.st.bucket THEN EndEarly(BucketMissing)
             ELSE IF fileEmpty THEN EndEarly(<<"File data is empty or invalid">>)
             ELSE IF ~hasName THEN EndEarly(<<"File name is required">>)
             ELSE pc' = "loop" /\ result' = NoResult
    /\ UNCHANGED <<env, files>>

\* The catch block shared by the attempts: remember the error, then either
\* start the backoff timer or go round the loop.
UploadFailure(events, msg) ==
    /\ lastError' = UploadCatch(lastError, Err(msg))
    /\ result' = result
    /\ IF UploadShouldDelay(attempt, maxRetries)
       THEN /\ log' = log \o events \o <<Delay(attempt, UploadBackoffMs(attempt))>>
            /\ pc' = "backoff"
            /\ attempt' = attempt
       ELSE /\ log' = log \o events
            /\ pc' = "loop"
            /\ attempt' = attempt + 1

UploadAttempt ==
    /\ op = "upload" /\ pc = "loop"
    /\ UploadLoopCond(attempt, maxRetries)
    /\ \/ \* gcsFile.save and getMetadata both return
          /\ files' = files \cup {arg.path}
          /\ log' = log \o <<Call("save", attempt), Call("getMetadata", attempt)>>
          /\ result' = Resolved
          /\ pc' = "done"
          /\ UNCHANGED <<attempt, lastError>>
       \/ \* gcsFile.save throws
          /\ \E msg \in StorageErrors :
                UploadFailure(<<Failed("save", attempt, msg)>>, msg)
          /\ files' = files
       \/ \* the object is written, getMetadata throws
          /\ \E msg \in StorageErrors :
                UploadFailure(<<Call("save", attempt),
                                Failed("getMetadata", attempt, msg)>>, msg)
          /\ files' = files \cup {arg.path}
    /\ UNCHANGED <<env, storage, bucket, initializationError, op, arg, maxRetries, del>>

\* The timer of the backoff fires: the loop goes on with the next attempt.
UploadBackoff ==
    /\ op = "upload" /\ pc = "backoff"
    /\ attempt' = attempt + 1
    /\ pc' = "loop"
    /\ UNCHANGED <<env, storage, bucket, initializationError, files, op, arg,
                   maxRetries, lastError, log, result, del>>

UploadExhausted ==
    /\ op = "upload" /\ pc = "loop"
    /\ ~UploadLoopCond(attempt, maxRetries)
    /\ result' = Rejected(UploadFinalError(maxRetries, lastError))
    /\ pc' = "done"
    /\ UNCHANGED <<env, storage, bucket, initializationError, files, op, arg,
                   maxRetries, attempt, lastError, log, del>>

-----------------------------------------------------------------------------
(* storage.ts: readFile *)

ReadLoopCondOneMore(a, n) == a <= n + 1

ReadLoopCond(a, n) == a <= n

ReadShouldDelay(a, n) == a < n

ReadBackoffMs(a) == 300 * a

ReadCatch(prev, e) == e

ReadNeverNotFound(msg) == FALSE

\* lastError.message.includes('not found')
ReadIsNotFound(msg) == Includes(msg, "not found")

FileNotFound(path) == <<"File ", "not found", ": ", path>>

ReadFinalError(n, last) ==
    IF last.set THEN last.message
    ELSE <<"Failed to read file after ", ToString(n), " attempts">>

CallReadFile ==
    /\ Idle
    /\ \E path \in Paths \cup {""}, n \in 0..MaxRetriesBound, ctor \in Constructor :
          LET e == ensureInitialized(InitState, ctor) IN
          /\ SetInitState(e.st)
          /\ StartCall("read", [path |-> path], n)
          /\ IF e.throws THEN EndEarly(e.st.initializationError.message)
             ELSE IF ~e.st.bucket THEN EndEarly(BucketMissing)
             ELSE IF path = "" THEN EndEarly(<<"File path is required">>)
             ELSE pc' = "loop" /\ result' = NoResult
    /\ UNCHANGED <<env, files>>

ReadFailure(events, msg) ==
    /\ lastError' = ReadCatch(lastError, Err(msg))
    /\ IF ReadIsNotFound(lastError'.message)
       THEN /\ log' = log \o events
            /\ result' = Rejected(lastError'.message)
            /\ pc' = "done"
            /\ attempt' = attempt
       ELSE /\ result' = result
            /\ IF ReadShouldDelay(attempt, maxRetries)
               THEN /\ log' = log \o events \o <<Delay(attempt, ReadBackoffMs(attempt))>>
                    /\ pc' = "backoff"
                    /\ attempt' = attempt
               ELSE /\ log' = log \o events
                    /\ pc' = "loop"
                    /\ attempt' = attempt + 1

ReadAttempt ==
    /\ op = "read" /\ pc = "loop"
    /\ ReadLoopCond(attempt, maxRetries)
    /\ \/ \* file.exists throws
          \E msg \in StorageErrors :
              ReadFailure(<<Failed("exists", attempt, msg)>>, msg)
       \/ \* file.exists reports that the file is not there
          /\ arg.path \notin files
          /\ ReadFailure(<<Event("exists", attempt, TRUE, FALSE, <<>>, 0),
                           Failed("throw", attempt, FileNotFound(arg.path))>>,
                         FileNotFound(arg.path))
       \/ \* the file is there and file.download returns
          /\ arg.path \in files
          /\ log' = log \o <<Call("exists", attempt), Call("download", attempt)>>
          /\ result' = Resolved
          /\ pc' = "done"
          /\ UNCHANGED <<attempt, lastError>>
       \/ \* the file is there and file.download throws
          /\ arg.path \in files
          /\ \E msg \in StorageErrors :
                ReadFailure(<<Call("exists", attempt),
                              Failed("download", attempt, msg)>>, msg)
    /\ UNCHANGED <<env, storage, bucket, initializationError, files, op, arg,
                   maxRetries, del>>

ReadBackoff ==
    /\ op = "read" /\ pc = "backoff"
    /\ attempt' = attempt + 1
    /\ pc' = "loop"
    /\ UNCHANGED <<env, storage, bucket, initializationError, files, op, arg,
                   maxRetries, lastError, log, result, del>>

ReadExhausted ==
    /\ op = "read" /\ pc = "loop"
    /\ ~ReadLoopCond(attempt, maxRetries)
    /\ result' = Rejected(ReadFinalError(maxRetries, lastError))
    /\ pc' = "done"
    /\ UNCHANGED <<env, storage, bucket, initializationError, files, op, arg,
                   maxRetries, attempt, lastError, log, del>>

-----------------------------------------------------------------------------
(* The PDF converter: convertPdfToImage and attemptPdfConversion *)

ConvertLoopCond(a, n) == a <= n

ConvertShouldDelay(a, n) == a < n

ConvertBackoffMs(a) == 500 * a

\* What the PDF library and the canvas can answer for a well-formed input.
PdfFailures ==
    { <<"Failed to convert PDF: ", "Loading chunk failed">>,
      <<"PDF parsing failed: ", "Invalid PDF structure">>,
      <<"PDF has no pages">> }

\* attemptPdfConversion(file): the results it can return. Its whole body is
\* inside try/catch, so it returns an error result and never throws.
attemptPdfConversion(file) ==
    IF ~file.browser
    THEN { ErrorResult(<<"Not running in a browser context">>) }
    ELSE IF file.empty
    THEN { ErrorResult(<<"Invalid or empty file">>) }
    ELSE IF ~file.pdf
    THEN { ErrorResult(<<"File is not a PDF">>) }
    ELSE { Resolved } \cup { ErrorResult(m) : m \in PdfFailures }

\* The error results that no later attempt can turn into a success.
NonRetryableResults ==
    { <<"Not running in a browser context">>, <<"Invalid or empty file">>,
      <<"File is not a PDF">> }

ConvertFinalError(n, last) ==
    <<"Failed after ", ToString(n), " attempts: ">>
        \o (IF last.set /\ last.message # <<>> THEN last.message
            ELSE <<"Unknown error">>)

CallConvertPdfToImage ==
    /\ Idle
    /\ \E browser \in BOOLEAN, empty \in BOOLEAN, pdf \in BOOLEAN,
          n \in 0..MaxRetriesBound :
          StartCall("convert", [browser |-> browser, empty |-> empty, pdf |-> pdf], n)
    /\ pc' = "loop"
    /\ result' = NoResult
    /\ UNCHANGED <<env, storage, bucket, initializationError, files>>

ConvertAttempt ==
    /\ op = "convert" /\ pc = "loop"
    /\ ConvertLoopCond(attempt, maxRetries)
    /\ \E r \in attemptPdfConversion(arg) :
          IF r.kind = "errorResult" /\ ConvertShouldDelay(attempt, maxRetries)
          THEN \* warn, delay(500 * attempt), continue
               /\ log' = log \o <<Failed("attemptPdfConversion", attempt, r.message),
                                   Delay(attempt, ConvertBackoffMs(attempt))>>
               /\ pc' = "backoff"
               /\ result' = result
          ELSE \* return result
               /\ log' = log \o
                     <<IF r.kind = "errorResult"
                       THEN Failed("attemptPdfConversion", attempt, r.message)
                       ELSE Call("attemptPdfConversion", attempt)>>
               /\ pc' = "done"
               /\ result' = r
    /\ UNCHANGED <<env, storage, bucket, initializationError, files, op, arg,
                   maxRetries, attempt, lastError, del>>

ConvertBackoff ==
    /\ op = "convert" /\ pc = "backoff"
    /\ attempt' = attempt + 1
    /\ pc' = "loop"
    /\ UNCHANGED <<env, storage, bucket, initializationError, files, op, arg,
                   maxRetries, lastError, log, result, del>>

\* The loop ends without a return: only when no attempt was made at all
\* (maxRetries < 1), since an attempt never throws.
ConvertExhausted ==
    /\ op = "convert" /\ pc = "loop"
    /\ ~ConvertLoopCond(attempt, maxRetries)
    /\ result' = ErrorResult(ConvertFinalError(maxRetries, lastError))
    /\ pc' = "done"
    /\ UNCHANGED <<env, storage, bucket, initializationError, files, op, arg,
                   maxRetries, attempt, lastError, log, del>>

-----------------------------------------------------------------------------
(* storage.ts: deleteFile, one call from its start to its end; the calls of *)
(* the module are made one at a time.                                      *)

\* try { exists; if (exists) delete } catch { console.error }: the result of
\* the block for each outcome of the two bucket calls.
DeleteOutcomes(path) ==
    { [log |-> <<Failed("exists", 1, m)>>, removed |-> FALSE] : m \in StorageErrors }
    \cup
    ( IF path \in files
      THEN { [log |-> <<Call("exists", 1), Call("delete", 1)>>, removed |-> TRUE] }
           \cup { [log |-> <<Call("exists", 1), Failed("delete", 1, m)>>,
                    removed |-> FALSE] : m \in StorageErrors }
      ELSE { [log |-> <<Event("exists", 1, TRUE, FALSE, <<>>, 0)>>,
              removed |-> FALSE] } )

DeleteCatchRethrows(o) == Rejected(o.log[Len(o.log)].msg)

\* What the catch block of deleteFile does with an exception of the block.
DeleteCatch(o) == Resolved

DeleteFile ==
    /\ Idle
    /\ \E path \in Paths, ctor \in Constructor :
          LET e == ensureInitialized(InitState, ctor)
              d == [called |-> TRUE, path |-> path,
                    initialised |-> e.st.storage /\ e.st.bucket /\ ~e.throws,
                    existed |-> path \in files, log |-> <<>>, result |-> NoResult]
          IN
          /\ SetInitState(e.st)
          /\ IF e.throws
             THEN /\ del' = [d EXCEPT !.result = Rejected(e.st.initializationError.message)]
                  /\ files' = files
             ELSE IF ~e.st.bucket
             THEN /\ del' = [d EXCEPT !.result = Rejected(BucketMissing)]
                  /\ files' = files
             ELSE \E o \in DeleteOutcomes(path) :
                  /\ del' = [d EXCEPT !.log = o.log,
                                      !.result = IF o.log[Len(o.log)].ok THEN Resolved
                                                 ELSE DeleteCatch(o)]
                  /\ files' = IF o.removed THEN files \ {path} ELSE files
    /\ op' = "delete"
    /\ arg' = [path |-> ""]
    /\ maxRetries' = 0
    /\ attempt' = 0
    /\ pc' = "done"
    /\ lastError' = NoError
    /\ log' = <<>>
    /\ result' = NoResult
    /\ env' = env

-----------------------------------------------------------------------------
(* storage.ts: copyFile and moveFile, one call from its start to its end *)

\* copyFile past its checks: exists on the source, then copy; what the call
\* logs, whether the copy was made, and the message it throws if not.
CopyOutcomes(sourcePath) ==
    { [log |-> <<Failed("exists", 1, m)>>, copied |-> FALSE, message |-> m] :
         m \in StorageErrors }
    \cup
    ( IF sourcePath \in files
      THEN { [log |-> <<Call("exists", 1), Call("copy", 1)>>, copied |-> TRUE,
              message |-> <<>>] }
           \cup { [log |-> <<Call("exists", 1), Failed("copy", 1, m)>>,
                    copied |-> FALSE, message |-> m] : m \in StorageErrors }
      ELSE { [log |-> <<Event("exists", 1, TRUE, FALSE, <<>>, 0)>>, copied |-> FALSE,
              message |-> <<"Source file not found">>] } )

\* await copyFile(sourcePath, destinationPath); await deleteFile(sourcePath)
MoveFile ==
    /\ Idle
    /\ \E sourcePath \in Paths, destinationPath \in Paths, ctor \in Constructor :
          LET e == ensureInitialized(InitState, ctor)
              a == [path |-> sourcePath, destination |-> destinationPath,
                    existed |-> sourcePath \in files]
          IN
          /\ SetInitState(e.st)
          /\ arg' = a
          /\ IF e.throws
             THEN /\ result' = Rejected(e.st.initializationError.message)
                  /\ log' = <<>> /\ del' = NoDelete /\ files' = files
             ELSE IF ~e.st.bucket
             THEN /\ result' = Rejected(BucketMissing)
                  /\ log' = <<>> /\ del' = NoDelete /\ files' = files
             ELSE \E c \in CopyOutcomes(sourcePath) :
                  /\ log' = c.log
                  /\ IF ~c.copied
                     THEN /\ result' = Rejected(c.message)
                          /\ del' = NoDelete /\ files' = files
                     ELSE \E o \in DeleteOutcomes(sourcePath) :
                          LET r == IF o.log[Len(o.log)].ok THEN Resolved
                                   ELSE DeleteCatch(o)
                          IN  /\ del' = [called |-> TRUE, path |-> sourcePath,
                                         initialised |-> TRUE, existed |-> TRUE,
                                         log |-> o.log, result |-> r]
                              /\ result' = r
                              /\ files' = IF o.removed
                                          THEN (files \cup {destinationPath}) \ {sourcePath}
                                          ELSE files \cup {destinationPath}
    /\ op' = "move"
    /\ maxRetries' = 0
    /\ attempt' = 0
    /\ pc' = "done"
    /\ lastError' = NoError
    /\ env' = env

-----------------------------------------------------------------------------
(* The storage module and the converter, one process *)

Credentials == {"json", "badjson", "keyfile"}

StorageInit ==
    /\ env \in [bucketName : BOOLEAN, credentials : Credentials]
    /\ storage = FALSE
    /\ bucket = FALSE
    /\ initializationError = NoError
    /\ files = {}
    /\ op = "none"
    /\ arg = [path |-> ""]
    /\ maxRetries = 0
    /\ attempt = 0
    /\ pc = "idle"
    /\ lastError = NoError
    /\ log = <<>>
    /\ result = NoResult
    /\ del = NoDelete

-----------------------------------------------------------------------------
(* app/routes/resume.tsx *)

LoadRetries == 3

NoLoad == [pc |-> "none", file |-> "pdf", i |-> 0, blob |-> FALSE, log |-> <<>>]

ReadEvent(file, i, ok) == [ev |-> "read", file |-> file, i |-> i, ok |-> ok, ms |-> 0]
DelayEvent(file, i, ms) == [ev |-> "delay", file |-> file, i |-> i, ok |-> TRUE, ms |-> ms]

\* useEffect(() => { if (!isLoading && !auth.isAuthenticated) navigate(...) }, [isLoading])
AuthEffect(loading, authed, nav) ==
    IF ~loading /\ ~authed
    THEN Append(nav, <<"/auth?next=/resume/", id>>)
    ELSE nav

\* useEffect(() => { ...; if (id && auth.isAuthenticated) loadResume() }, [id, auth.isAuthenticated])
LoadEffect(authed, l) ==
    IF id # "" /\ authed
    THEN [pc |-> "kv.get", file |-> "pdf", i |-> 0, blob |-> FALSE, log |-> <<>>]
    ELSE l

\* The first render: both effects run.
Mount ==
    /\ ~mounted
    /\ mounted' = TRUE
    /\ navigated' = AuthEffect(isLoading, isAuthenticated, navigated)
    /\ load' = LoadEffect(isAuthenticated, load)
    /\ UNCHANGED <<isLoading, isAuthenticated, id, resumeUrl, imageUrl, feedback>>

\* The store finishes its authentication check: isLoading turns false and
\* isAuthenticated gets its value; the effects whose dependencies changed run.
AuthResolved ==
    /\ mounted /\ isLoading /\ navigated = <<>>
    /\ \E authed \in BOOLEAN :
          /\ isLoading' = FALSE
          /\ isAuthenticated' = authed
          /\ navigated' = AuthEffect(FALSE, authed, navigated)
          /\ load' = IF authed # isAuthenticated
                     THEN LoadEffect(authed, load) ELSE load
    /\ UNCHANGED <<id, mounted, resumeUrl, imageUrl, feedback>>

\* The session ends while the view is shown: only the second effect depends
\* on auth.isAuthenticated, and it does nothing for an unauthenticated user.
SignOut ==
    /\ mounted /\ ~isLoading /\ isAuthenticated /\ navigated = <<>>
    /\ isAuthenticated' = FALSE
    /\ load' = LoadEffect(FALSE, load)
    /\ UNCHANGED <<isLoading, id, mounted, navigated, resumeUrl, imageUrl, feedback>>

\* const resume = await kv.get(...); JSON.parse(resume)
LoadKvGet ==
    /\ load.pc = "kv.get"
    /\ \E outcome \in {"throws", "null", "badjson", "data"} :
          load' = [load EXCEPT !.pc = IF outcome = "data" THEN "read" ELSE "done"]
    /\ UNCHANGED <<isLoading, isAuthenticated, id, mounted, navigated,
                   resumeUrl, imageUrl, feedback>>

\* for (let i = 0; i < 3; i++) { ... }
LoadLoopCond(i) == i < LoadRetries

\* await new Promise(r => setTimeout(r, 500 * (i + 1)))
LoadBackoffMs(i) == 500 * (i + 1)

\* The code after one of the two loops, for the file the loop was about.
AfterLoop(l, file, blob) ==
    IF file = "pdf"
    THEN /\ load' = [l EXCEPT !.pc = "read", !.file = "image", !.i = 0, !.blob = FALSE]
         /\ resumeUrl' = (resumeUrl \/ blob)
         /\ UNCHANGED <<imageUrl, feedback>>
    ELSE /\ load' = [l EXCEPT !.pc = "done"]
         /\ imageUrl' = (imageUrl \/ blob)
         /\ feedback' = TRUE
         /\ UNCHANGED resumeUrl

\* One pass of a loop up to its await: blob = await fs.read(path); break or wait.
LoadRead ==
    /\ load.pc = "read"
    /\ LoadLoopCond(load.i)
    /\ \/ \* fs.read returns the blob
          AfterLoop([load EXCEPT !.log = Append(@, ReadEvent(load.file, load.i, TRUE))],
                    load.file, TRUE)
       \/ \* fs.read returns nothing
          /\ load' = [load EXCEPT
                         !.pc = "delay",
                         !.log = @ \o <<ReadEvent(load.file, load.i, FALSE),
                                        DelayEvent(load.file, load.i,
                                                   LoadBackoffMs(load.i))>>]
          /\ UNCHANGED <<resumeUrl, imageUrl, feedback>>
       \/ \* fs.read throws: the outer catch ends loadResume
          /\ load' = [load EXCEPT !.pc = "done",
                                  !.log = Append(@, ReadEvent(load.file, load.i, FALSE))]
          /\ UNCHANGED <<resumeUrl, imageUrl, feedback>>
    /\ UNCHANGED <<isLoading, isAuthenticated, id, mounted, navigated>>

\* The timer fires: i++, and the loop goes on.
LoadDelayDone ==
    /\ load.pc = "delay"
    /\ load' = [load EXCEPT !.pc = "read", !.i = @ + 1]
    /\ UNCHANGED <<isLoading, isAuthenticated, id, mounted, navigated,
                   resumeUrl, imageUrl, feedback>>

\* The loop condition fails: the loop ends without a blob.
LoadLoopExit ==
    /\ load.pc = "read"
    /\ ~LoadLoopCond(load.i)
    /\ AfterLoop(load, load.file, FALSE)
    /\ UNCHANGED <<isLoading, isAuthenticated, id, mounted, navigated>>

ResumeInit ==
    /\ isLoading \in BOOLEAN
    /\ isAuthenticated \in BOOLEAN
    /\ id \in {"", "r1"}
    /\ mounted = FALSE
    /\ navigated = <<>>
    /\ resumeUrl = FALSE
    /\ imageUrl = FALSE
    /\ feedback = FALSE
    /\ load = NoLoad

-----------------------------------------------------------------------------
(* The database, scripts/seed-data.mjs and the trial quota *)

MaxSeedRuns == 2
MaxKvSerial == 3

Tables == {"users", "resumes", "sessions", "kv_store"}

TestUsersOverQuota ==
    << [name |-> "John Developer", email |-> "john@example.com",
        subscription_tier |-> "free", trial_uses |-> 1, max_trial_uses |-> 3],
       [name |-> "Jane Engineer", email |-> "jane@example.com",
        subscription_tier |-> "pro", trial_uses |-> 4, max_trial_uses |-> 3],
       [name |-> "Test User", email |-> "test@example.com",
        subscription_tier |-> "free", trial_uses |-> 0, max_trial_uses |-> 3] >>

\* const testUsers = [...]
TestUsers ==
    << [name |-> "John Developer", email |-> "john@example.com",
        subscription_tier |-> "free", trial_uses |-> 1, max_trial_uses |-> 3],
       [name |-> "Jane Engineer", email |-> "jane@example.com",
        subscription_tier |-> "pro", trial_uses |-> 3, max_trial_uses |-> 3],
       [name |-> "Test User", email |-> "test@example.com",
        subscription_tier |-> "free", trial_uses |-> 0, max_trial_uses |-> 3] >>

\* const sampleResumes = [...]: the created user each belongs to, and its file
SampleResumes ==
    << [user |-> 1, file_name |-> "john_developer_resume.pdf"],
       [user |-> 1, file_name |-> "john_backend_resume.pdf"],
       [user |-> 2, file_name |-> "jane_engineer_resume.pdf"] >>

\* The keys of the two kv_store entries, both of createdUsers[0].
SampleKeys == << "last_analysis_date", "preferences" >>

NoSeed == [pc |-> "none", i |-> 0, uuids |-> <<>>, createdUsers |-> <<>>]

\* An INSERT draws the next id of the table's sequence, also when a
\* conflict then turns it into an update.
NextVal(t) == [serial EXCEPT ![t] = @ + 1]

\* INSERT INTO users ... ON CONFLICT (email) DO UPDATE SET name = EXCLUDED.name
\* RETURNING id, name, email
UpsertUser(rows, row) ==
    IF \E r \in rows : r.email = row.email
    THEN LET old == CHOOSE r \in rows : r.email = row.email
             new == [old EXCEPT !.name = row.name]
         IN  [rows |-> (rows \ {old}) \cup {new}, returning |-> new]
    ELSE [rows |-> rows \cup {row}, returning |-> row]

\* INSERT INTO resumes ... / INSERT INTO sessions ...: no conflict clause, and
\* no unique column that a second run could hit (the token is random).
InsertRow(rows, row) == rows \cup {row}

\* user_id INTEGER REFERENCES users(id): the column has no NOT NULL, and NULL
\* is kept as 0, which no serial id takes.
Null == 0

\* The comparison a unique index makes of two values of a column: NULLs are
\* distinct from everything, each other included.
SqlEquals(a, b) == a # Null /\ b # Null /\ a = b

\* UNIQUE(key, user_id): the rows that a new row collides with.
KvConflict(rows, row) ==
    { r \in rows : r.key = row.key /\ SqlEquals(r.user_id, row.user_id) }

\* INSERT INTO kv_store ... ON CONFLICT (key, user_id) DO UPDATE SET value = EXCLUDED.value
UpsertKv(rows, row) ==
    IF KvConflict(rows, row) # {}
    THEN LET old == CHOOSE r \in KvConflict(rows, row) : TRUE
         IN  (rows \ {old}) \cup {[old EXCEPT !.value = row.value]}
    ELSE rows \cup {row}

\* INSERT INTO kv_store ... with no conflict clause: a row that the unique
\* constraint rejects is not inserted.
InsertKv(rows, row) ==
    IF KvConflict(rows, row) # {} THEN rows ELSE rows \cup {row}

Counts == [t \in Tables |->
             CASE t = "users" -> Cardinality(users)
               [] t = "resumes" -> Cardinality(resumes)
               [] t = "sessions" -> Cardinality(sessions)
               [] t = "kv_store" -> Cardinality(kv_store)]

\* node scripts/seed-data.mjs: testUsers is built, with three random UUIDs
SeedStart ==
    /\ seed.pc \in {"none", "done", "failed"}
    /\ seedRuns < MaxSeedRuns
    /\ seedRuns' = seedRuns + 1
    /\ random' = random + 3
    /\ seed' = [pc |-> "users", i |-> 1,
                uuids |-> <<random + 1, random + 2, random + 3>>,
                createdUsers |-> <<>>]
    /\ UNCHANGED <<users, resumes, sessions, kv_store, serial, summaries>>

\* for (const user of testUsers) { INSERT INTO users ...; createdUsers.push(result[0]) }
SeedInsertUser ==
    /\ seed.pc = "users"
    /\ LET u == TestUsers[seed.i]
           row == [id |-> serial["users"], uuid |-> seed.uuids[seed.i],
                   name |-> u.name, email |-> u.email,
                   subscription_tier |-> u.subscription_tier,
                   trial_uses |-> u.trial_uses, max_trial_uses |-> u.max_trial_uses]
           r == UpsertUser(users, row)
       IN  /\ users' = r.rows
           /\ serial' = NextVal("users")
           /\ seed' = [seed EXCEPT
                         !.createdUsers = Append(@, r.returning.id),
                         !.i = IF seed.i < Len(TestUsers) THEN seed.i + 1 ELSE 1,
                         !.pc = IF seed.i < Len(TestUsers) THEN "users" ELSE "resumes"]
    /\ UNCHANGED <<resumes, sessions, kv_store, random, seedRuns, summaries>>

\* for (const resume of sampleResumes) { INSERT INTO resumes ... }
SeedInsertResume ==
    /\ seed.pc = "resumes"
    /\ LET r == SampleResumes[seed.i]
           row == [id |-> serial["resumes"], user_id |-> seed.createdUsers[r.user],
                   file_name |-> r.file_name]
       IN  /\ resumes' = InsertRow(resumes, row)
           /\ serial' = NextVal("resumes")
           /\ seed' = [seed EXCEPT
                         !.i = IF seed.i < Len(SampleResumes) THEN seed.i + 1 ELSE 1,
                         !.pc = IF seed.i < Len(SampleResumes) THEN "resumes" ELSE "sessions"]
    /\ UNCHANGED <<users, sessions, kv_store, random, seedRuns, summaries>>

\* for (const user of createdUsers) { INSERT INTO sessions ... } with a
\* random session token
SeedInsertSession ==
    /\ seed.pc = "sessions"
    /\ LET row == [id |-> serial["sessions"], user_id |-> seed.createdUsers[seed.i],
                   session_token |-> random + 1]
       IN  /\ sessions' = InsertRow(sessions, row)
           /\ serial' = NextVal("sessions")
           /\ random' = random + 1
           /\ seed' = [seed EXCEPT
                         !.i = IF seed.i < Len(seed.createdUsers) THEN seed.i + 1 ELSE 1,
                         !.pc = IF seed.i < Len(seed.createdUsers) THEN "sessions" ELSE "kv"]
    /\ UNCHANGED <<users, resumes, kv_store, seedRuns, summaries>>

\* The two INSERT INTO kv_store ... ON CONFLICT statements; the first value is
\* the time of the run.
SeedInsertKv ==
    /\ seed.pc = "kv"
    /\ LET row == [id |-> serial["kv_store"], key |-> SampleKeys[seed.i],
                   user_id |-> seed.createdUsers[1],
                   value |-> IF seed.i = 1 THEN seedRuns ELSE 0]
       IN  /\ kv_store' = UpsertKv(kv_store, row)
           /\ serial' = NextVal("kv_store")
           /\ seed' = [seed EXCEPT
                         !.i = IF seed.i < Len(SampleKeys) THEN seed.i + 1 ELSE 1,
                         !.pc = IF seed.i < Len(SampleKeys) THEN "kv" ELSE "summary"]
    /\ UNCHANGED <<users, resumes, sessions, random, seedRuns, summaries>>

\* A write of the application into kv_store, in either form, for a user or
\* for none.
KvWrite ==
    /\ seed.pc \in {"none", "done", "failed"}
    /\ serial["kv_store"] <= MaxKvSerial
    /\ \E upsert \in BOOLEAN, key \in {"preferences", "resume:1"},
          user \in {Null} \cup { u.id : u \in users } :
          LET row == [id |-> serial["kv_store"], key |-> key, user_id |-> user,
                      value |-> 0]
          IN  kv_store' = IF upsert THEN UpsertKv(kv_store, row)
                          ELSE InsertKv(kv_store, row)
    /\ serial' = NextVal("kv_store")
    /\ UNCHANGED <<users, resumes, sessions, random, seed, seedRuns, summaries>>

\* The four SELECT COUNT(*) and the end of the script
SeedSummary ==
    /\ seed.pc = "summary"
    /\ summaries' = Append(summaries, Counts)
    /\ seed' = [seed EXCEPT !.pc = "done"]
    /\ UNCHANGED <<users, resumes, sessions, kv_store, serial, random, seedRuns>>

\* Any statement can fail (the connection, the server): catch, process.exit(1).
\* What the earlier statements wrote stays: the script opens no transaction.
SeedFail ==
    /\ seed.pc \in {"users", "resumes", "sessions", "kv", "summary"}
    /\ seed' = [seed EXCEPT !.pc = "failed"]
    /\ UNCHANGED <<users, resumes, sessions, kv_store, serial, random,
                   seedRuns, summaries>>

\* The trial state the store hands to TrialTracker for a user row.
TrialState(u) ==
    [used |-> u.trial_uses, max |-> u.max_trial_uses,
     remaining |-> u.max_trial_uses - u.trial_uses]

\* TrialTracker: what it shows for the trial state { used, remaining, max }
TrialTracker(trial, authenticated) ==
    IF ~authenticated THEN [shown |-> FALSE]
    ELSE [shown |-> TRUE,
          used |-> trial.used, max |-> trial.max, remaining |-> trial.remaining,
          status |-> IF trial.remaining = 0 THEN "exhausted"
                     ELSE IF trial.remaining = 1 THEN "one left" ELSE "remaining",
          upgradeLink |-> trial.remaining <= 1]

\* An analysis consumes a trial of a user who has one left.
ConsumeTrial ==
    /\ \E u \in users :
          /\ u.trial_uses < u.max_trial_uses
          /\ users' = (users \ {u}) \cup {[u EXCEPT !.trial_uses = @ + 1]}
    /\ UNCHANGED <<resumes, sessions, kv_store, serial, random, seed,
                   seedRuns, summaries>>

DbInit ==
    /\ users = {} /\ resumes = {} /\ sessions = {} /\ kv_store = {}
    /\ serial = [t \in Tables |-> 1]
    /\ random = 0
    /\ seed = NoSeed
    /\ seedRuns = 0
    /\ summaries = <<>>

-----------------------------------------------------------------------------
(* migrations/*.sql as text: a file is a sequence of lines, and a line is  *)
(* a comment, a blank line or a piece of SQL that may end a statement.     *)

MaxMigrationRuns == 2
MaxFaults == 1

NoStmt == [kind |-> "none", ine |-> FALSE, name |-> "", table |-> "",
           cols |-> {}, refs |-> {}, body |-> <<>>]

\* CREATE TABLE IF NOT EXISTS t (cols), with the tables its columns reference
CreateTable(t, cols, refs) ==
    [kind |-> "createTable", ine |-> TRUE, name |-> t, table |-> t,
     cols |-> cols, refs |-> refs, body |-> <<>>]

\* ALTER TABLE t ADD COLUMN [IF NOT EXISTS] c
AddColumn(t, c, ine) ==
    [kind |-> "addColumn", ine |-> ine, name |-> c, table |-> t,
     cols |-> {c}, refs |-> {}, body |-> <<>>]

\* CREATE INDEX IF NOT EXISTS i ON t(cols)
CreateIndex(i, t, cols) ==
    [kind |-> "createIndex", ine |-> TRUE, name |-> i, table |-> t,
     cols |-> cols, refs |-> {}, body |-> <<>>]

\* DO $$ BEGIN IF NOT EXISTS (...) THEN <statement>; END IF; ... END $$
DoBlock(body) ==
    [kind |-> "do", ine |-> TRUE, name |-> "", table |-> "",
     cols |-> {}, refs |-> {}, body |-> body]

Line(k, st, semi, do) == [k |-> k, s |-> st, semi |-> semi, do |-> do]

Comment == Line("comment", NoStmt, FALSE, "none")
Blank == Line("blank", NoStmt, FALSE, "none")
\* a statement on one line, ending in ';'
One(st) == Line("sql", st, TRUE, "none")
\* the first line of a statement that goes on, a line inside it, its last line
Open(st) == Line("sql", st, FALSE, "none")
Inside == Line("sql", NoStmt, FALSE, "none")
Close == Line("sql", NoStmt, TRUE, "none")

UsersColumns ==
    {"id", "uuid", "name", "email", "subscription_tier", "trial_uses",
     "max_trial_uses", "trial_expires_at", "created_at", "updated_at"}
SessionsColumns == {"id", "user_id", "session_token", "expires_at", "created_at"}
ResumesColumns ==
    {"id", "user_id", "file_name", "file_path", "file_size", "mime_type",
     "gcs_url", "analysis_data", "ats_score", "created_at", "updated_at"}
KvColumns == {"id", "key", "value", "user_id", "created_at", "updated_at"}
PaymentsColumns ==
    {"id", "user_id", "razorpay_order_id", "razorpay_payment_id",
     "razorpay_signature", "amount", "currency", "payment_status", "plan_id",
     "created_at", "updated_at"}

\* 000_initial_schema.sql
InitialSchema ==
    << Comment, Comment, Blank,
       Comment, Open(CreateTable("users", UsersColumns, {})), Inside, Close, Blank,
       Comment, Open(CreateTable("sessions", SessionsColumns, {"users"})), Inside, Close, Blank,
       Comment, Open(CreateTable("resumes", ResumesColumns, {"users"})), Inside, Close, Blank,
       Comment, Open(CreateTable("kv_store", KvColumns, {"users"})), Inside, Close, Blank,
       Comment, Open(CreateTable("payments", PaymentsColumns, {"users"})), Inside, Close, Blank,
       Comment,
       One(CreateIndex("idx_users_uuid", "users", {"uuid"})),
       One(CreateIndex("idx_users_email", "users", {"email"})),
       One(CreateIndex("idx_users_trial_uses", "users", {"trial_uses"})),
       One(CreateIndex("idx_sessions_user_id", "sessions", {"user_id"})),
       One(CreateIndex("idx_sessions_token", "sessions", {"session_token"})),
       One(CreateIndex("idx_sessions_expires", "sessions", {"expires_at"})),
       One(CreateIndex("idx_resumes_user_id", "resumes", {"user_id"})),
       One(CreateIndex("idx_resumes_created", "resumes", {"created_at"})),
       One(CreateIndex("idx_kv_key", "kv_store", {"key"})),
       One(CreateIndex("idx_kv_user", "kv_store", {"user_id"})),
       One(CreateIndex("idx_payments_user", "payments", {"user_id"})),
       One(CreateIndex("idx_payments_order", "payments", {"razorpay_order_id"})) >>

\* 003_add_trial_tracking.sql
AddTrialTracking ==
    << Comment, Comment, Blank,
       Comment, One(AddColumn("users", "trial_uses", TRUE)), Blank,
       Comment, One(AddColumn("users", "max_trial_uses", TRUE)), Blank,
       Comment, One(CreateIndex("idx_users_trial_uses", "users", {"trial_uses"})) >>

Variants == {"plain", "guarded", "do"}

\* A file that adds one column and then an index on it, in one of the forms
\* such a migration takes: a plain ALTER TABLE, one with IF NOT EXISTS, or a
\* DO block around it.
AddColumnFile(v, t, c, index) ==
    LET tail == IF index = "" THEN <<>>
                ELSE <<Blank, Comment, One(CreateIndex(index, t, {c}))>>
    IN  IF v = "do"
        THEN << Comment,
                Line("sql", DoBlock(<<AddColumn(t, c, TRUE)>>), FALSE, "open"),
                Line("sql", NoStmt, TRUE, "none"),
                Line("sql", NoStmt, TRUE, "close") >> \o tail
        ELSE << Comment, One(AddColumn(t, c, v = "guarded")) >> \o tail

\* 001_add_uuid_column.sql
AddUuidColumn(v) == AddColumnFile(v, "users", "uuid", "idx_users_uuid")

\* 002_add_gcs_url_to_resumes.sql
AddGcsUrlToResumes(v) == AddColumnFile(v, "resumes", "gcs_url", "")

\* const migrations = [...], each with the content readFileSync returns
migrations ==
    << InitialSchema, AddUuidColumn(variant), AddGcsUrlToResumes(variant),
       AddTrialTracking >>

-----------------------------------------------------------------------------
(* The database's answer to a statement: the schema after it and the       *)
(* message of its error, <<>> when it succeeds.                            *)

TableName(t) == <<"table", t, "">>
ColumnName(t, c) == <<"column", t, c>>
IndexName(i) == <<"index", i, "">>

AlreadyExists(what) == <<what, " ", "already exists">>
DoesNotExist(what) == <<what, " ", "does not exist">>

Answer(sch, err) == [schema |-> sch, err |-> err]

ExecOne(sch, st) ==
    CASE st.kind = "createTable" ->
            IF TableName(st.table) \in sch
            THEN IF st.ine THEN Answer(sch, <<>>)
                 ELSE Answer(sch, AlreadyExists("relation"))
            ELSE IF \E r \in st.refs : TableName(r) \notin sch
            THEN Answer(sch, DoesNotExist("relation"))
            ELSE Answer(sch \cup {TableName(st.table)}
                            \cup { ColumnName(st.table, c) : c \in st.cols }, <<>>)
      [] st.kind = "addColumn" ->
            IF TableName(st.table) \notin sch
            THEN Answer(sch, DoesNotExist("relation"))
            ELSE IF ColumnName(st.table, st.name) \in sch
            THEN IF st.ine THEN Answer(sch, <<>>)
                 ELSE Answer(sch, AlreadyExists("column"))
            ELSE Answer(sch \cup {ColumnName(st.table, st.name)}, <<>>)
      [] st.kind = "createIndex" ->
            IF IndexName(st.name) \in sch
            THEN IF st.ine THEN Answer(sch, <<>>)
                 ELSE Answer(sch, AlreadyExists("relation"))
            ELSE IF TableName(st.table) \notin sch
            THEN Answer(sch, DoesNotExist("relation"))
            ELSE IF \E c \in st.cols : ColumnName(st.table, c) \notin sch
            THEN Answer(sch, DoesNotExist("column"))
            ELSE Answer(sch \cup {IndexName(st.name)}, <<>>)
      [] OTHER -> Answer(sch, <<>>)

\* The statements of a DO block run in one transaction: an error undoes them.
RECURSIVE ExecBody(_, _, _)
ExecBody(sch0, sch, body) ==
    IF body = <<>> THEN Answer(sch, <<>>)
    ELSE LET a == ExecOne(sch, body[1])
         IN  IF a.err # <<>> THEN Answer(sch0, a.err)
             ELSE ExecBody(sch0, a.schema, Tail(body))

Exec(sch, st) ==
    IF st.kind = "do" THEN ExecBody(sch, sch, st.body) ELSE ExecOne(sch, st)

-----------------------------------------------------------------------------
(* scripts/run-migrations.mjs *)

\* sqlContent.includes('DO $$')
HasDo(lines) == \E i \in DOMAIN lines : lines[i].do = "open"

\* sqlContent.match(/DO \$\$[\s\S]*?\$\$/): from the first DO $$ to the
\* next $$; the statement it is handed to the database as
DoBlockMatch(lines) ==
    LET a == CHOOSE i \in DOMAIN lines :
                 lines[i].do = "open" /\ \A j \in 1..(i - 1) : lines[j].do # "open"
    IN  IF \E b \in DOMAIN lines : b > a /\ lines[b].do = "close"
        THEN <<lines[a].s>> ELSE <<>>

\* .split('\n').filter(line => !line.trim().startsWith('--')).join('\n')
RemoveComments(lines) == SelectSeq(lines, LAMBDA l : l.k # "comment")

\* .split(/;\s*(?=\n|$)/): a piece ends with a line that ends in ';'
RECURSIVE SplitPieces(_, _, _)
SplitPieces(lines, cur, out) ==
    IF lines = <<>> THEN (IF cur = <<>> THEN out ELSE Append(out, cur))
    ELSE IF lines[1].semi
    THEN SplitPieces(Tail(lines), <<>>, Append(out, Append(cur, lines[1])))
    ELSE SplitPieces(Tail(lines), Append(cur, lines[1]), out)

\* .map(s => s.trim()).filter(s => s.length > 0): the pieces with some SQL in
\* them, each as the statement that its lines spell
Statements(lines) ==
    LET pieces == SplitPieces(RemoveComments(lines), <<>>, <<>>)
        sql(p) == SelectSeq(p, LAMBDA l : l.k = "sql")
        kept == SelectSeq(pieces, LAMBDA p : sql(p) # <<>>)
    IN  [i \in DOMAIN kept |-> sql(kept[i])[1].s]

NoMig == [pc |-> "idle", f |-> 1, s |-> 1, start |-> {}]

Query(f, st, r) == [ev |-> "query", f |-> f, s |-> st, r |-> r]
Report(f, r) == [ev |-> "report", f |-> f, s |-> 0, r |-> r]

\* How a query ended, as the log keeps it.
QueryResult(err) ==
    IF err = <<>> THEN "ok"
    ELSE IF Includes(err, "already exists") THEN "already exists" ELSE "error"

\* The messages a query can fail with when the connection does.
ConnectionError == <<"fetch failed">>

StatementAlwaysRethrows(err) == TRUE

\* catch (stmtErr) { if (!stmtErr.message?.includes('already exists')) throw stmtErr }
StatementRethrows(err) == ~Includes(err, "already exists")

\* catch (error): "already applied (skipping)" or "failed"
MigrationCatch(err) ==
    IF Includes(err, "already exists") \/ Includes(err, "duplicate")
    THEN "already applied" ELSE "failed"

NextFile(m) == [m EXCEPT !.pc = "file", !.f = @ + 1, !.s = 1]

AfterCatchStops(m) == [m EXCEPT !.pc = "file", !.f = Len(migrations) + 1, !.s = 1]

\* The outer catch only logs ("Continue with other migrations"): the loop
\* goes on with the next file.
AfterCatch(m) == NextFile(m)

\* What readFileSync throws for a file that is not there.
NoSuchFile == <<"ENOENT: no such file or directory">>

\* What a query can answer: the database's answer, or a connection error
\* (a bounded number of them) that leaves the schema alone.
QueryAnswers(st) ==
    {Exec(schema, st)} \cup
    (IF faults < MaxFaults THEN {Answer(schema, ConnectionError)} ELSE {})

CountFault(a) ==
    faults' = IF a.err = ConnectionError THEN faults + 1 ELSE faults

\* node scripts/run-migrations.mjs
MigrateStart ==
    /\ mig.pc \in {"idle", "done"}
    /\ migRuns < MaxMigrationRuns
    /\ migRuns' = migRuns + 1
    /\ mig' = [pc |-> "file", f |-> 1, s |-> 1, start |-> schema]
    /\ migLog' = <<>>
    /\ UNCHANGED <<variant, schema, faults>>

\* The head of the loop body for one migration: the file is read; a file
\* with a DO block is run as that block alone, any other is split.
MigrateFile ==
    /\ mig.pc = "file" /\ mig.f <= Len(migrations)
    /\ \/ \* readFileSync throws: the file is missing
          /\ faults < MaxFaults
          /\ faults' = faults + 1
          /\ migLog' = Append(migLog, Report(mig.f, MigrationCatch(NoSuchFile)))
          /\ mig' = AfterCatch(mig)
          /\ schema' = schema
       \/ LET content == migrations[mig.f]
              block == IF HasDo(content) THEN DoBlockMatch(content) ELSE <<>>
          IN  IF block # <<>>
              THEN \E a \in QueryAnswers(block[1]) :
                      /\ schema' = a.schema
                      /\ CountFault(a)
                      /\ migLog' = migLog \o
                            <<Query(mig.f, 0, QueryResult(a.err)),
                              Report(mig.f, IF a.err = <<>> THEN "completed"
                                            ELSE MigrationCatch(a.err))>>
                      /\ mig' = IF a.err = <<>> THEN NextFile(mig) ELSE AfterCatch(mig)
              ELSE /\ IF Statements(content) = <<>>
                      THEN /\ migLog' = Append(migLog, Report(mig.f, "completed"))
                           /\ mig' = NextFile(mig)
                      ELSE /\ migLog' = migLog
                           /\ mig' = [mig EXCEPT !.pc = "stmt", !.s = 1]
                   /\ UNCHANGED <<schema, faults>>
    /\ UNCHANGED <<variant, migRuns>>

\* One pass of the loop over the statements of a file.
MigrateStatement ==
    /\ mig.pc = "stmt"
    /\ LET stmts == Statements(migrations[mig.f])
           last == mig.s = Len(stmts)
       IN  \E a \in QueryAnswers(stmts[mig.s]) :
               /\ schema' = a.schema
               /\ CountFault(a)
               /\ IF a.err # <<>> /\ StatementRethrows(a.err)
                  THEN \* the error leaves the loop: the outer catch reports it
                       /\ migLog' = migLog \o <<Query(mig.f, mig.s, QueryResult(a.err)),
                                                 Report(mig.f, MigrationCatch(a.err))>>
                       /\ mig' = AfterCatch(mig)
                  ELSE LET q == Query(mig.f, mig.s, QueryResult(a.err))
                       IN  IF last
                           THEN /\ migLog' = migLog \o <<q, Report(mig.f, "completed")>>
                                /\ mig' = NextFile(mig)
                           ELSE /\ migLog' = Append(migLog, q)
                                /\ mig' = [mig EXCEPT !.s = @ + 1]
    /\ UNCHANGED <<variant, migRuns>>

\* After the last migration: the schema is read back and the run ends.
MigrateFinish ==
    /\ mig.pc = "file" /\ mig.f > Len(migrations)
    /\ mig' = [mig EXCEPT !.pc = "done"]
    /\ UNCHANGED <<variant, schema, migLog, migRuns, faults>>

MigInit ==
    /\ variant \in Variants
    /\ schema = {}
    /\ mig = NoMig
    /\ migLog = <<>>
    /\ migRuns = 0
    /\ faults = 0

MigIdle ==
    /\ variant = "plain"
    /\ schema = {}
    /\ mig = NoMig
    /\ migLog = <<>>
    /\ migRuns = 0
    /\ faults = 0

-----------------------------------------------------------------------------
(* The OAuth callback handler. A string is a sequence of pieces of text;   *)
(* the pieces " ", "," and "/" are single characters.                      *)

\* A value of req.query: absent, a string, or an array of strings (kept as
\* the text String() gives for it, its items joined by ",").
Absent == [type |-> "undefined", v |-> <<>>]
Str(v) == [type |-> "string", v |-> v]
Arr(v) == [type |-> "array", v |-> v]

\* JavaScript truthiness of a query value: an array is truthy, a string is
\* truthy unless it is empty.
Truthy(q) == q.type = "array" \/ (q.type = "string" /\ q.v # <<>>)

\* String(value)
JsString(q) == IF q.type = "undefined" THEN <<"undefined">> ELSE q.v

EncodeChar(c) ==
    CASE c = " " -> "%20"
      [] c = "," -> "%2C"
      [] c = "/" -> "%2F"
      [] OTHER -> c

\* encodeURIComponent
encodeURIComponent(str) == [i \in DOMAIN str |-> EncodeChar(str[i])]

Methods == {"GET", "OPTIONS", "POST"}
ErrorParams == {Absent, Str(<<>>), Str(<<"access_denied">>),
                Str(<<"server", " ", "error">>), Arr(<<"a", ",", "b">>)}
CodeParams == {Absent, Str(<<>>), Str(<<"4", "/", "0Ab">>), Arr(<<"c1", ",", "c2">>)}
StateParams == {Absent, Str(<<"st">>)}

\* What a helper of app/lib/auth can throw: an Error with a message, or a
\* value that is not an Error.
Thrown == { [isError |-> TRUE, message |-> <<"invalid_grant">>],
            [isError |-> TRUE, message |-> <<"fetch", " ", "failed">>],
            [isError |-> FALSE, message |-> <<"boom">>] }

NoResponse == [status |-> 0, kind |-> "none", location |-> <<>>,
               cookie |-> FALSE, sent |-> 0]

NoHandler == [pc |-> "idle", calls |-> <<>>, email |-> FALSE, redirectTo |-> <<>>]

NoRequest == [method |-> "GET", code |-> Absent, state |-> Absent, error |-> Absent]

\* A helper call as the handler's record keeps it.
HelperCall(fn, ok) == [fn |-> fn, ok |-> ok]

\* res.status(200).end() / res.status(405).json(...) / res.redirect(302, url)
Respond(r, status, kind, location) ==
    [r EXCEPT !.status = status, !.kind = kind, !.location = location,
              !.sent = @ + 1]

ErrorLocation(message) == <<"/?error=">> \o message

\* catch (error) { errorMessage = error instanceof Error ? error.message
\* : 'Unknown error'; redirect to /?error=encodeURIComponent(errorMessage) }
HandlerCatch(r, error) ==
    LET errorMessage == IF error.isError THEN error.message
                        ELSE <<"Unknown", " ", "error">>
    IN  Respond(r, 302, "redirect", ErrorLocation(encodeURIComponent(errorMessage)))

CodeAlwaysAccepted(code) == FALSE

\* !code || typeof code !== 'string'
CodeMissing(code) == ~Truthy(code) \/ code.type # "string"

EmailAlwaysPresent(email) == TRUE

\* if (!googleUser.email) is not taken
HasEmail(email) == email

RedirectToAsGiven(redirectTo) == redirectTo

\* stateData?.redirectTo || '/upload' (redirectTo is <<>> when stateData is
\* null or carries none)
RedirectTarget(redirectTo) ==
    IF redirectTo # <<>> THEN redirectTo ELSE <<"/", "upload">>

\* A request arrives: the platform calls handler(req, res) with a new res.
Request ==
    /\ handler.pc \in {"idle", "done"}
    /\ req' \in [method : Methods, code : CodeParams, state : StateParams,
                 error : ErrorParams]
    /\ res' = NoResponse
    /\ handler' = [NoHandler EXCEPT !.pc = "entry"]

\* From the method checks to the check of the code.
HandlerEntry ==
    /\ handler.pc = "entry"
    /\ IF req.method = "OPTIONS"
       THEN /\ res' = Respond(res, 200, "end", <<>>)
            /\ handler' = [handler EXCEPT !.pc = "done"]
       ELSE IF req.method # "GET"
       THEN /\ res' = Respond(res, 405, "json", <<>>)
            /\ handler' = [handler EXCEPT !.pc = "done"]
       ELSE IF Truthy(req.error)
       THEN /\ res' = Respond(res, 302, "redirect",
                        ErrorLocation(encodeURIComponent(JsString(req.error))))
            /\ handler' = [handler EXCEPT !.pc = "done"]
       ELSE IF CodeMissing(req.code)
       THEN /\ res' = Respond(res, 302, "redirect", ErrorLocation(<<"missing_code">>))
            /\ handler' = [handler EXCEPT !.pc = "done"]
       ELSE /\ res' = res
            /\ handler' = [handler EXCEPT !.pc = "getGoogleUserInfo"]
    /\ req' = req

\* const googleUser = await getGoogleUserInfo(code); if (!googleUser.email) ...
GetGoogleUserInfo ==
    /\ handler.pc = "getGoogleUserInfo"
    /\ \/ \E error \in Thrown :
            /\ res' = HandlerCatch(res, error)
            /\ handler' = [handler EXCEPT
                             !.calls = Append(@, HelperCall("getGoogleUserInfo", FALSE)),
                             !.pc = "done"]
       \/ \E email \in BOOLEAN :
            LET h == [handler EXCEPT
                        !.calls = Append(@, HelperCall("getGoogleUserInfo", TRUE)),
                        !.email = email]
            IN  IF HasEmail(email)
                THEN /\ res' = res
                     /\ handler' = [h EXCEPT !.pc = "createUserSession"]
                ELSE /\ res' = Respond(res, 302, "redirect", ErrorLocation(<<"no_email">>))
                     /\ handler' = [h EXCEPT !.pc = "done"]
    /\ req' = req

\* const { sessionToken } = await createUserSession(id, name, email)
CreateUserSession ==
    /\ handler.pc = "createUserSession"
    /\ \/ \E error \in Thrown :
            /\ res' = HandlerCatch(res, error)
            /\ handler' = [handler EXCEPT
                             !.calls = Append(@, HelperCall("createUserSession", FALSE)),
                             !.pc = "done"]
       \/ /\ res' = res
          /\ handler' = [handler EXCEPT
                           !.calls = Append(@, HelperCall("createUserSession", TRUE)),
                           !.pc = "setSessionCookie"]
    /\ req' = req

\* setSessionCookie(res, sessionToken): it sets the header, or throws before
\* it has.
SetSessionCookie ==
    /\ handler.pc = "setSessionCookie"
    /\ \/ \E error \in Thrown :
            /\ res' = HandlerCatch(res, error)
            /\ handler' = [handler EXCEPT
                             !.calls = Append(@, HelperCall("setSessionCookie", FALSE)),
                             !.pc = "done"]
       \/ /\ res' = [res EXCEPT !.cookie = TRUE]
          /\ handler' = [handler EXCEPT
                           !.calls = Append(@, HelperCall("setSessionCookie", TRUE)),
                           !.pc = "verifyStateToken"]
    /\ req' = req

\* What verifyStateToken can return for the state parameter: null, or the
\* data of the token, with or without a redirectTo.
StateData == IF req.state.type = "string"
             THEN {<<>>, <<"/", "resume", "/", "1">>}
             ELSE {<<>>}

\* const stateData = verifyStateToken(state); redirect to its redirectTo
VerifyStateToken ==
    /\ handler.pc = "verifyStateToken"
    /\ \/ \E error \in Thrown :
            /\ res' = HandlerCatch(res, error)
            /\ handler' = [handler EXCEPT
                             !.calls = Append(@, HelperCall("verifyStateToken", FALSE)),
                             !.pc = "done"]
       \/ \E redirectTo \in StateData :
            /\ res' = Respond(res, 302, "redirect", RedirectTarget(redirectTo))
            /\ handler' = [handler EXCEPT
                             !.calls = Append(@, HelperCall("verifyStateToken", TRUE)),
                             !.redirectTo = redirectTo,
                             !.pc = "done"]
    /\ req' = req

OAuthInit ==
    /\ req = NoRequest
    /\ res = NoResponse
    /\ handler = NoHandler

OAuthIdle ==
    /\ req = NoRequest
    /\ res = NoResponse
    /\ handler = NoHandler

-----------------------------------------------------------------------------
(* The PDF converter: loadPdfJs. The import and the handlers chained on it *)
(* run as separate steps of the event loop, and callers come in between.  *)

MaxImports == 3

Callers == {"c1", "c2"}

\* One import("pdfjs-dist/build/pdf.mjs") and the promise
\* import(...).then(...).catch(...) made of it.
NewImport == [import |-> "running", promise |-> "pending"]

InFlight == { i \in DOMAIN promises : promises[i].import = "running" }

IdleCaller == [pc |-> "idle", p |-> 0]

SharesNever(lp) == FALSE

\* if (loadPromise) return loadPromise
SharesPromise(lp) == lp # 0

\* The synchronous part of loadPdfJs, called by c.
LoadPdfJs ==
    \E c \in Callers :
       /\ callers[c].pc = "idle"
       /\ IF pdfjsLib
          THEN /\ callers' = [callers EXCEPT ![c] = [pc |-> "loaded", p |-> 0]]
               /\ UNCHANGED <<loadPromise, promises>>
          ELSE IF SharesPromise(loadPromise)
          THEN /\ callers' = [callers EXCEPT ![c] = [pc |-> "awaiting", p |-> loadPromise]]
               /\ UNCHANGED <<loadPromise, promises>>
          ELSE IF ~window
          THEN /\ callers' = [callers EXCEPT ![c] = [pc |-> "rejected", p |-> 0]]
               /\ UNCHANGED <<loadPromise, promises>>
          ELSE /\ Len(promises) < MaxImports
               /\ promises' = Append(promises, NewImport)
               /\ loadPromise' = Len(promises) + 1
               /\ callers' = [callers EXCEPT
                                ![c] = [pc |-> "awaiting", p |-> Len(promises) + 1]]
       /\ UNCHANGED <<window, pdfjsLib>>

\* The dynamic import settles.
ImportSettles ==
    /\ \E i \in InFlight, outcome \in {"fulfilled", "rejected"} :
          promises' = [promises EXCEPT ![i].import = outcome]
    /\ UNCHANGED <<window, pdfjsLib, loadPromise, callers>>

\* .then((lib) => { ...; pdfjsLib = lib; return lib })
ThenHandler ==
    /\ \E i \in DOMAIN promises :
          /\ promises[i].import = "fulfilled" /\ promises[i].promise = "pending"
          /\ promises' = [promises EXCEPT ![i].promise = "fulfilled"]
    /\ pdfjsLib' = TRUE
    /\ UNCHANGED <<window, loadPromise, callers>>

\* .catch((err) => { loadPromise = null; throw err })
CatchHandler ==
    /\ \E i \in DOMAIN promises :
          /\ promises[i].import = "rejected" /\ promises[i].promise = "pending"
          /\ promises' = [promises EXCEPT ![i].promise = "rejected"]
    /\ loadPromise' = 0
    /\ UNCHANGED <<window, pdfjsLib, callers>>

\* A caller's await of the promise it was given ends.
CallerResumes ==
    /\ \E c \in Callers :
          /\ callers[c].pc = "awaiting"
          /\ promises[callers[c].p].promise # "pending"
          /\ callers' = [callers EXCEPT
                           ![c].pc = IF promises[callers[c].p].promise = "fulfilled"
                                     THEN "loaded" ELSE "rejected"]
    /\ UNCHANGED <<window, pdfjsLib, loadPromise, promises>>

\* The caller is done with the result and may call again later.
CallerReturns ==
    /\ \E c \in Callers :
          /\ callers[c].pc \in {"loaded", "rejected"}
          /\ callers' = [callers EXCEPT ![c] = IdleCaller]
    /\ UNCHANGED <<window, pdfjsLib, loadPromise, promises>>

PdfInit ==
    /\ window \in BOOLEAN
    /\ pdfjsLib = FALSE
    /\ loadPromise = 0
    /\ promises = <<>>
    /\ callers = [c \in Callers |-> IdleCaller]

PdfIdle ==
    /\ window = TRUE
    /\ pdfjsLib = FALSE
    /\ loadPromise = 0
    /\ promises = <<>>
    /\ callers = [c \in Callers |-> IdleCaller]

-----------------------------------------------------------------------------
(* The specifications: each part of the repository is checked on its own, *)
(* the other parts at rest.                                                *)

StorageIdle ==
    /\ env = [bucketName |-> TRUE, credentials |-> "json"]
    /\ storage = FALSE /\ bucket = FALSE /\ initializationError = NoError
    /\ files = {} /\ op = "none" /\ arg = [path |-> ""] /\ maxRetries = 0
    /\ attempt = 0 /\ pc = "idle" /\ lastError = NoError /\ log = <<>>
    /\ result = NoResult /\ del = NoDelete

ResumeIdle ==
    /\ isLoading = TRUE /\ isAuthenticated = FALSE /\ id = ""
    /\ mounted = FALSE /\ navigated = <<>>
    /\ resumeUrl = FALSE /\ imageUrl = FALSE /\ feedback = FALSE
    /\ load = NoLoad

DbIdle == DbInit

Init == StorageInit /\ ResumeIdle /\ DbIdle /\ MigIdle /\ OAuthIdle /\ PdfIdle

Next ==
    \/ CallUploadFile /\ UNCHANGED <<resumeVars, dbVars, migVars, oauthVars, pdfVars>>
    \/ UploadAttempt /\ UNCHANGED <<resumeVars, dbVars, migVars, oauthVars, pdfVars>>
    \/ UploadBackoff /\ UNCHANGED <<resumeVars, dbVars, migVars, oauthVars, pdfVars>>
    \/ UploadExhausted /\ UNCHANGED <<resumeVars, dbVars, migVars, oauthVars, pdfVars>>
    \/ CallReadFile /\ UNCHANGED <<resumeVars, dbVars, migVars, oauthVars, pdfVars>>
    \/ ReadAttempt /\ UNCHANGED <<resumeVars, dbVars, migVars, oauthVars, pdfVars>>
    \/ ReadBackoff /\ UNCHANGED <<resumeVars, dbVars, migVars, oauthVars, pdfVars>>
    \/ ReadExhausted /\ UNCHANGED <<resumeVars, dbVars, migVars, oauthVars, pdfVars>>
    \/ CallConvertPdfToImage /\ UNCHANGED <<resumeVars, dbVars, migVars, oauthVars, pdfVars>>
    \/ ConvertAttempt /\ UNCHANGED <<resumeVars, dbVars, migVars, oauthVars, pdfVars>>
    \/ ConvertBackoff /\ UNCHANGED <<resumeVars, dbVars, migVars, oauthVars, pdfVars>>
    \/ ConvertExhausted /\ UNCHANGED <<resumeVars, dbVars, migVars, oauthVars, pdfVars>>
    \/ DeleteFile /\ UNCHANGED <<resumeVars, dbVars, migVars, oauthVars, pdfVars>>
    \/ MoveFile /\ UNCHANGED <<resumeVars, dbVars, migVars, oauthVars, pdfVars>>

Spec == Init /\ [][Next]_vars

InitResume == StorageIdle /\ ResumeInit /\ DbIdle /\ MigIdle /\ OAuthIdle /\ PdfIdle

NextResume ==
    \/ Mount /\ UNCHANGED <<storageVars, dbVars, migVars, oauthVars, pdfVars>>
    \/ AuthResolved /\ UNCHANGED <<storageVars, dbVars, migVars, oauthVars, pdfVars>>
    \/ SignOut /\ UNCHANGED <<storageVars, dbVars, migVars, oauthVars, pdfVars>>
    \/ LoadKvGet /\ UNCHANGED <<storageVars, dbVars, migVars, oauthVars, pdfVars>>
    \/ LoadRead /\ UNCHANGED <<storageVars, dbVars, migVars, oauthVars, pdfVars>>
    \/ LoadDelayDone /\ UNCHANGED <<storageVars, dbVars, migVars, oauthVars, pdfVars>>
    \/ LoadLoopExit /\ UNCHANGED <<storageVars, dbVars, migVars, oauthVars, pdfVars>>

SpecResume == InitResume /\ [][NextResume]_vars

InitDb == StorageIdle /\ ResumeIdle /\ DbInit /\ MigIdle /\ OAuthIdle /\ PdfIdle

NextDb ==
    \/ SeedStart /\ UNCHANGED <<storageVars, resumeVars, migVars, oauthVars, pdfVars>>
    \/ SeedInsertUser /\ UNCHANGED <<storageVars, resumeVars, migVars, oauthVars, pdfVars>>
    \/ SeedInsertResume /\ UNCHANGED <<storageVars, resumeVars, migVars, oauthVars, pdfVars>>
    \/ SeedInsertSession /\ UNCHANGED <<storageVars, resumeVars, migVars, oauthVars, pdfVars>>
    \/ SeedInsertKv /\ UNCHANGED <<storageVars, resumeVars, migVars, oauthVars, pdfVars>>
    \/ SeedSummary /\ UNCHANGED <<storageVars, resumeVars, migVars, oauthVars, pdfVars>>
    \/ SeedFail /\ UNCHANGED <<storageVars, resumeVars, migVars, oauthVars, pdfVars>>
    \/ ConsumeTrial /\ UNCHANGED <<storageVars, resumeVars, migVars, oauthVars, pdfVars>>

SpecDb == InitDb /\ [][NextDb]_vars

\* The application's writes into kv_store, next to the seed script.
NextKv ==
    \/ SeedStart /\ UNCHANGED <<storageVars, resumeVars, migVars, oauthVars, pdfVars>>
    \/ SeedInsertUser /\ UNCHANGED <<storageVars, resumeVars, migVars, oauthVars, pdfVars>>
    \/ SeedInsertResume /\ UNCHANGED <<storageVars, resumeVars, migVars, oauthVars, pdfVars>>
    \/ SeedInsertSession /\ UNCHANGED <<storageVars, resumeVars, migVars, oauthVars, pdfVars>>
    \/ SeedInsertKv /\ UNCHANGED <<storageVars, resumeVars, migVars, oauthVars, pdfVars>>
    \/ SeedSummary /\ UNCHANGED <<storageVars, resumeVars, migVars, oauthVars, pdfVars>>
    \/ SeedFail /\ UNCHANGED <<storageVars, resumeVars, migVars, oauthVars, pdfVars>>
    \/ KvWrite /\ UNCHANGED <<storageVars, resumeVars, migVars, oauthVars, pdfVars>>

SpecKv == InitDb /\ [][NextKv]_vars

InitMigrate == StorageIdle /\ ResumeIdle /\ DbIdle /\ MigInit /\ OAuthIdle /\ PdfIdle

NextMigrate ==
    \/ MigrateStart /\ UNCHANGED <<storageVars, resumeVars, dbVars, oauthVars, pdfVars>>
    \/ MigrateFile /\ UNCHANGED <<storageVars, resumeVars, dbVars, oauthVars, pdfVars>>
    \/ MigrateStatement /\ UNCHANGED <<storageVars, resumeVars, dbVars, oauthVars, pdfVars>>
    \/ MigrateFinish /\ UNCHANGED <<storageVars, resumeVars, dbVars, oauthVars, pdfVars>>

SpecMigrate == InitMigrate /\ [][NextMigrate]_vars

InitOAuth == StorageIdle /\ ResumeIdle /\ DbIdle /\ MigIdle /\ OAuthInit /\ PdfIdle

NextOAuth ==
    \/ Request /\ UNCHANGED <<storageVars, resumeVars, dbVars, migVars, pdfVars>>
    \/ HandlerEntry /\ UNCHANGED <<storageVars, resumeVars, dbVars, migVars, pdfVars>>
    \/ GetGoogleUserInfo /\ UNCHANGED <<storageVars, resumeVars, dbVars, migVars, pdfVars>>
    \/ CreateUserSession /\ UNCHANGED <<storageVars, resumeVars, dbVars, migVars, pdfVars>>
    \/ SetSessionCookie /\ UNCHANGED <<storageVars, resumeVars, dbVars, migVars, pdfVars>>
    \/ VerifyStateToken /\ UNCHANGED <<storageVars, resumeVars, dbVars, migVars, pdfVars>>

SpecOAuth == InitOAuth /\ [][NextOAuth]_vars

InitPdf == StorageIdle /\ ResumeIdle /\ DbIdle /\ MigIdle /\ OAuthIdle /\ PdfInit

NextPdf ==
    \/ LoadPdfJs /\ UNCHANGED <<storageVars, resumeVars, dbVars, migVars, oauthVars>>
    \/ ImportSettles /\ UNCHANGED <<storageVars, resumeVars, dbVars, migVars, oauthVars>>
    \/ ThenHandler /\ UNCHANGED <<storageVars, resumeVars, dbVars, migVars, oauthVars>>
    \/ CatchHandler /\ UNCHANGED <<storageVars, resumeVars, dbVars, migVars, oauthVars>>
    \/ CallerResumes /\ UNCHANGED <<storageVars, resumeVars, dbVars, migVars, oauthVars>>
    \/ CallerReturns /\ UNCHANGED <<storageVars, resumeVars, dbVars, migVars, oauthVars>>

SpecPdf == InitPdf /\ [][NextPdf]_vars

-----------------------------------------------------------------------------
(* The retry loops: what the log of a call says *)

RetryOps == {"upload", "read", "convert"}

\* The remote operations a retry loop wraps.
RemoteCalls == {"save", "exists", "download", "attemptPdfConversion"}

Indices(ev) == { i \in DOMAIN log : log[i].ev = ev }

\* The attempts that were made, and those that failed.
AttemptsMade == { log[i].k : i \in { j \in DOMAIN log : log[j].ev \in RemoteCalls } }
FailedAt(i) == log[i].ev # "delay" /\ ~log[i].ok

\* Attempt k has been made, or the loop is on its way to it.
MadeOrPending(k) ==
    \/ k \in AttemptsMade
    \/ pc = "backoff" /\ attempt = k - 1
    \/ pc = "loop" /\ attempt = k /\ k <= maxRetries

BackoffMs(o, k) ==
    CASE o = "upload" -> 500 * 2^(k - 1)
      [] o = "read" -> 300 * k
      [] o = "convert" -> 500 * k

\* The message of the failure of the last attempt in the log.
LastFailure ==
    LET F == { i \in DOMAIN log : FailedAt(i) }
        m == CHOOSE i \in F : \A j \in F : j <= i
    IN  log[m].msg

AllAttemptsFailed ==
    /\ op \in RetryOps /\ pc = "done"
    /\ maxRetries >= 1
    /\ AttemptsMade = 1..maxRetries
    /\ result.kind # "resolved"

\* An error of a class that a retry cannot cure.
NonRetryable(msg) == Includes(msg, "not found") \/ msg \in NonRetryableResults

\* C1: in one call of uploadFile, readFile or convertPdfToImage each remote
\* operation (save, exists, download, attemptPdfConversion) is attempted at
\* most maxRetries times, and no attempt has a number above maxRetries.
C1_RetryBound ==
    op \in RetryOps =>
        /\ \A ev \in RemoteCalls : Cardinality(Indices(ev)) <= maxRetries
        /\ \A k \in AttemptsMade : k <= maxRetries

C1_Witness ==
    /\ op = "read" /\ pc = "done" /\ maxRetries = 3
    /\ Cardinality(Indices("exists")) = 3
    /\ result.kind = "rejected"

\* C2: in readFile, an attempt k on which file.exists reports that the file
\* is not there ends the call at once: the call rejects with the 'File not
\* found' error, no later attempt is made and no backoff delay follows.
C2_NotFoundShortCircuits ==
    op = "read" =>
        \A i \in DOMAIN log :
            (log[i].ev = "exists" /\ log[i].ok /\ ~log[i].val) =>
                /\ pc = "done"
                /\ result = Rejected(FileNotFound(arg.path))
                /\ \A j \in DOMAIN log : j > i => log[j].ev = "throw"
                /\ \A j \in DOMAIN log : log[j].k <= log[i].k

C2_Witness ==
    /\ op = "read" /\ maxRetries = 3
    /\ \E i \in DOMAIN log :
          log[i].ev = "exists" /\ log[i].ok /\ ~log[i].val /\ log[i].k = 2

C4_Original ==
    AllAttemptsFailed =>
        /\ Len(result.message) >= 3
        /\ result.message[2] = ToString(maxRetries)
        /\ \E t \in 0..Len(result.message) :
              SubSeq(result.message, t + 1, Len(result.message)) = LastFailure

\* C4 amended: when all N >= 1 attempts fail, the error that is surfaced
\* carries the message of the failure of the last (N-th) attempt: uploadFile
\* wraps it as 'Failed to upload file after N attempts: <message>', readFile
\* rethrows the last error itself, and convertPdfToImage returns the error
\* result of the last attempt itself.
C4_LastFailureSurfaced ==
    AllAttemptsFailed =>
        CASE op = "upload" ->
                result = Rejected(<<"Failed to upload file after ",
                                    ToString(maxRetries), " attempts: ">>
                                  \o LastFailure)
          [] op = "read" -> result = Rejected(LastFailure)
          [] op = "convert" -> result = ErrorResult(LastFailure)

C4_Witness ==
    /\ AllAttemptsFailed /\ op = "upload" /\ maxRetries = 3
    /\ \E i \in DOMAIN log : FailedAt(i) /\ log[i].k = 1 /\ log[i].msg # LastFailure

C10_DeleteNeverRejects ==
    (del.called /\ del.initialised) =>
        /\ del.result = Resolved
        /\ ~del.existed => \A i \in DOMAIN del.log : del.log[i].ev # "delete"

C10_Witness ==
    /\ del.called /\ del.initialised /\ del.existed
    /\ \E i \in DOMAIN del.log : del.log[i].ev = "delete" /\ ~del.log[i].ok
    /\ del.result = Resolved

\* C6: in loadResume fs.read is called at most 3 times per file, and every
\* backoff delay that is waited is followed by another fs.read of the same
\* file (while its timer runs, or once it has fired, the loop is on its way
\* to that read).
C6_DelayThenReattempt ==
    /\ \A f \in {"pdf", "image"} :
          Cardinality({ i \in DOMAIN load.log :
                          load.log[i].ev = "read" /\ load.log[i].file = f })
              <= LoadRetries
    /\ \A i \in DOMAIN load.log :
          load.log[i].ev = "delay" =>
              \/ /\ i < Len(load.log)
                 /\ load.log[i + 1].ev = "read"
                 /\ load.log[i + 1].file = load.log[i].file
              \/ /\ i = Len(load.log)
                 /\ load.pc = "delay"
              \/ /\ i = Len(load.log)
                 /\ load.pc = "read" /\ load.file = load.log[i].file
                 /\ LoadLoopCond(load.i)

C8_SeedIdempotent ==
    Len(summaries) >= 2 => summaries[2] = summaries[1]

\* What a statement creates, and the schema the migration files describe.
Objects(st) ==
    CASE st.kind = "createTable" ->
            {TableName(st.table)} \cup { ColumnName(st.table, c) : c \in st.cols }
      [] st.kind = "addColumn" -> {ColumnName(st.table, st.name)}
      [] st.kind = "createIndex" -> {IndexName(st.name)}
      [] st.kind = "do" ->
            UNION { {ColumnName(st.body[i].table, st.body[i].name)} : i \in DOMAIN st.body }
      [] OTHER -> {}

MigratedSchema ==
    UNION { UNION { Objects(migrations[f][i].s) : i \in DOMAIN migrations[f] } :
              f \in DOMAIN migrations }

\* The run in progress started on a database that was already migrated.
AlreadyMigrated == mig.pc # "idle" /\ MigratedSchema \subseteq mig.start

-----------------------------------------------------------------------------
(* The OAuth callback: what a finished request looks like *)

Reserved == {" ", ",", "/"}

\* The inverse of the query encoding, piece by piece.
DecodeChar(c) ==
    CASE c = "%20" -> " "
      [] c = "%2C" -> ","
      [] c = "%2F" -> "/"
      [] OTHER -> c

\* The message an error redirect carries, decoded.
ErrorMessageOf(location) ==
    [i \in 1..(Len(location) - 1) |-> DecodeChar(location[i + 1])]

IsErrorRedirect(r) ==
    /\ r.status = 302 /\ r.kind = "redirect"
    /\ Len(r.location) > 1
    /\ r.location[1] = "/?error="
    /\ \A i \in 2..Len(r.location) : r.location[i] \notin Reserved

Called(fn) == { i \in DOMAIN handler.calls : handler.calls[i].fn = fn }
Returned(fn) == { i \in Called(fn) : handler.calls[i].ok }
Threw == \E i \in DOMAIN handler.calls : ~handler.calls[i].ok

ProviderError == req.error.type # "undefined" /\ req.error.v # <<>>
StringCode == req.code.type = "string" /\ req.code.v # <<>>

\* C11: the callback answers a GET request with exactly one response, a 302
\* redirect: to /?error=<encoded message> when the provider returned an
\* error, the code is missing or not a string, the user has no email or a
\* step threw; otherwise to the redirectTo of the state, or /upload when
\* there is none. OPTIONS gets 200, any other method 405, and no redirect.
C11_ExactlyOneRedirect ==
    /\ handler.pc # "done" => res.sent = 0
    /\ handler.pc = "done" =>
          /\ res.sent = 1
          /\ req.method = "OPTIONS" => res.status = 200 /\ res.kind = "end"
          /\ req.method = "POST" => res.status = 405 /\ res.kind = "json"
          /\ req.method = "GET" =>
                /\ res.status = 302 /\ res.kind = "redirect"
                /\ IF ProviderError
                   THEN /\ IsErrorRedirect(res)
                        /\ ErrorMessageOf(res.location) = req.error.v
                   ELSE IF ~StringCode
                   THEN res.location = <<"/?error=", "missing_code">>
                   ELSE IF Threw
                   THEN /\ IsErrorRedirect(res)
                        /\ ErrorMessageOf(res.location) \in
                              { t.message : t \in Thrown } \cup {<<"Unknown", " ", "error">>}
                   ELSE IF ~handler.email
                   THEN res.location = <<"/?error=", "no_email">>
                   ELSE IF handler.redirectTo # <<>>
                   THEN res.location = handler.redirectTo
                   ELSE res.location = <<"/", "upload">>

C11_Witness ==
    /\ handler.pc = "done" /\ req.method = "GET"
    /\ req.error = Str(<<"server", " ", "error">>)
    /\ res.location = <<"/?error=", "server", "%20", "error">>

\* C18: createUserSession is called only for a GET request with no provider
\* error, a string code and a user info result with an email;
\* setSessionCookie is called only after createUserSession has returned; and
\* each is called at most once per request.
C18_SessionThenCookie ==
    /\ Called("createUserSession") # {} =>
          /\ req.method = "GET" /\ ~ProviderError /\ StringCode
          /\ Returned("getGoogleUserInfo") # {} /\ handler.email
    /\ \A i \in Called("setSessionCookie") :
          \E j \in Returned("createUserSession") : j < i
    /\ Cardinality(Called("createUserSession")) <= 1
    /\ Cardinality(Called("setSessionCookie")) <= 1

C18_Witness ==
    /\ handler.pc = "done"
    /\ Returned("createUserSession") # {}
    /\ Returned("setSessionCookie") # {}
    /\ res.cookie

\* C19: a response that redirects to /?error=... carries no session cookie:
\* on every path that ends in an error redirect no session has been created
\* and setSessionCookie has not been called.
C19_NoCookieOnErrorRedirect ==
    (handler.pc = "done" /\ IsErrorRedirect(res)) =>
        /\ ~res.cookie
        /\ Returned("createUserSession") = {}
        /\ Called("setSessionCookie") = {}

\* C12: after any sequence of inserts and upserts into kv_store no two rows
\* have the same (key, user) pair, rows whose user_id is NULL included.
C12_KvUnique ==
    \A r1 \in kv_store, r2 \in kv_store :
        (r1.key = r2.key /\ r1.user_id = r2.user_id) => r1 = r2

\* C13: whenever moveFile resolves, the destination holds the file and the
\* source is no longer in the bucket; and when it rejects (the copy failed
\* or the source was not found) the source is untouched and no delete was
\* started.
C13_MoveMoves ==
    (op = "move" /\ pc = "done") =>
        /\ result.kind = "resolved" =>
              arg.destination \in files /\ arg.path \notin files
        /\ result.kind = "rejected" =>
              /\ ~del.called
              /\ arg.existed => arg.path \in files

\* C20: once initializeStorage has failed, initializationError stays set,
\* and every storage call made from then on is rejected with it and makes
\* no bucket call, also after a later initialisation has set the client;
\* and a client that is set is never replaced.
C20_StickyInitializationError ==
    /\ [][initializationError.set => initializationError' = initializationError]_vars
    /\ [][storage => (storage' /\ bucket' = bucket)]_vars
    /\ [](initializationError.set =>
            /\ (op \in {"upload", "read", "move"} /\ pc # "idle") =>
                  /\ pc = "done"
                  /\ result = Rejected(initializationError.message)
                  /\ log = <<>>
            /\ (op = "delete" /\ del.called) =>
                  /\ del.result = Rejected(initializationError.message)
                  /\ del.log = <<>>
            /\ op = "move" => ~del.called)

C20_Witness ==
    /\ initializationError.set /\ storage /\ bucket
    /\ op = "read" /\ pc = "done"
    /\ result = Rejected(initializationError.message)

\* C14: at most one import of the PDF library is in flight at a time, and
\* callers that wait while it is pending wait on the one promise; once the
\* library is loaded no import is started any more; and a promise that was
\* rejected is no longer held in loadPromise, so that a later call starts a
\* new import.
C14_SingletonLoader ==
    /\ [](Cardinality(InFlight) <= 1)
    /\ [](\A c \in Callers :
            (callers[c].pc = "awaiting" /\ promises[callers[c].p].promise = "pending")
               => callers[c].p = loadPromise)
    /\ [][pdfjsLib => promises' = promises]_vars
    /\ [](\A i \in DOMAIN promises :
            promises[i].promise = "rejected" => loadPromise # i)
    /\ [][(loadPromise = 0 /\ ~pdfjsLib /\ window /\ callers' # callers
            /\ \E c \in Callers : callers[c].pc = "idle" /\ callers'[c].pc # "idle")
          => Len(promises') = Len(promises) + 1]_vars

C14_Witness ==
    /\ Len(promises) = 2
    /\ promises[1].promise = "rejected"
    /\ promises[2].import = "running"
    /\ \A c \in Callers : callers[c].pc = "awaiting" /\ callers[c].p = 2

Reports == SelectSeq(migLog, LAMBDA e : e.ev = "report")

\* The statement a query of the log handed to the database.
Executed(e) ==
    IF e.s = 0 THEN DoBlockMatch(migrations[e.f])[1]
    ELSE Statements(migrations[e.f])[e.s]

\* C15: the runner goes through the migrations in the order 000, 001, 002,
\* 003, one report each, and a failure in one of them (a missing file, a
\* failing statement) ends that file - the report is the next event and no
\* further statement of it is run - but not the run: every later migration
\* is still attempted.
C15_OrderAndContinue ==
    /\ \A k \in DOMAIN Reports : Reports[k].f = k
    /\ \A i \in DOMAIN migLog, j \in DOMAIN migLog :
          i < j => migLog[i].f <= migLog[j].f
    /\ \A i \in DOMAIN migLog :
          /\ (migLog[i].ev = "query" /\ migLog[i].r = "error") =>
                /\ i < Len(migLog)
                /\ migLog[i + 1] = Report(migLog[i].f, "failed")
          /\ (migLog[i].ev = "report" /\ i < Len(migLog)) =>
                migLog[i + 1].f = migLog[i].f + 1
    /\ mig.pc = "file" => mig.f = Len(Reports) + 1
    /\ mig.pc = "stmt" => mig.f = Len(Reports) + 1
    /\ mig.pc = "done" => Len(Reports) = Len(migrations)

C15_Witness ==
    /\ mig.pc = "done"
    /\ \E i \in DOMAIN migLog, j \in DOMAIN migLog :
          /\ i < j
          /\ migLog[i] = Report(1, "failed")
          /\ migLog[j].ev = "query" /\ migLog[j].f = 4 /\ migLog[j].r = "ok"

\* C16: for a migration file with a DO $$ block the whole content of the
\* file is run: once the file is reported completed, every statement in it,
\* those before and after the block too, has been handed to the database.
C16_WholeFileRun ==
    \A k \in DOMAIN Reports :
        (Reports[k].r = "completed" /\ HasDo(migrations[Reports[k].f])) =>
            \A i \in DOMAIN migrations[Reports[k].f] :
                migrations[Reports[k].f][i].s # NoStmt =>
                    \E e \in DOMAIN migLog :
                        /\ migLog[e].ev = "query" /\ migLog[e].f = Reports[k].f
                        /\ Executed(migLog[e]) = migrations[Reports[k].f][i].s

\* C17: in the resume view kv.get and fs.read are called only while an id is
\* present and the user is authenticated, and whenever loading has finished
\* with the user unauthenticated the view has navigated to
\* /auth?next=/resume/<id>.
C17_AuthGated ==
    /\ load.pc \in {"kv.get", "read", "delay"} => (id # "" /\ isAuthenticated)
    /\ (mounted /\ ~isLoading /\ ~isAuthenticated) =>
          /\ navigated # <<>>
          /\ navigated[Len(navigated)] = <<"/auth?next=/resume/", id>>

=============================================================================
